---- MODULE Spec2Model ----
(***************************************************************************)
(* Verification model of the two data-preparation tools:                   *)
(*   partition_dataset.py           iterate_dir                            *)
(*   coco_to_tfrecord_converter.py  create_tf_example and                  *)
(*                                  _create_tf_record_from_coco_annotations*)
(* The tools share no state, so each has its own specification over its    *)
(* own variables; the variables of the other tools stay at their idle      *)
(* values.                                                                 *)
(***************************************************************************)
EXTENDS Integers, Sequences, FiniteSets, TLC

VARIABLES
  \* ---- iterate_dir (partition_dataset.py) ----
  p_pc,             \* position in iterate_dir
  source_files,     \* names present in source_dir
  train_exists,     \* des_dir/train exists
  test_exists,      \* des_dir/test exists
  ratio,            \* <<numerator, denominator>> of the test ratio
  cop_xml,          \* the -x flag
  images,           \* the list `images`
  num_test_images,
  i,                \* completed iterations of the test loop
  j,                \* 1-based position of the train loop in `images`
  test_files,       \* names written into des_dir/test
  train_files,      \* names written into des_dir/train
  des_files,        \* names written into des_dir itself
  \* ---- create_tf_example ----
  e_pc,             \* position in create_tf_example
  image,            \* the image descriptor
  annotations_list,
  include_masks,
  k,                \* 1-based position of the annotation loop
  acc,              \* the local lists and the skip counter
  example,          \* the returned (key, example, num_annotations_skipped)
  \* ---- _create_tf_record_from_coco_annotations ----
  r_pc,
  groundtruth_data, \* the annotation document (format, images, annotations, categories)
  num_shards,
  output_tfrecords, \* one writer per shard: [open, records]
  category_index,
  annotations_index,
  a,                \* 1-based position of the annotation-index loop
  m,                \* 1-based position of the missing-annotation loop
  missing_annotation_count,
  idx,              \* 0-based position of the image loop
  total_num_annotations_skipped

pvars == <<p_pc, source_files, train_exists, test_exists, ratio, cop_xml, images,
           num_test_images, i, j, test_files, train_files, des_files>>
evars == <<e_pc, image, annotations_list, k, acc, example>>
rvars == <<r_pc, groundtruth_data, num_shards, output_tfrecords, category_index,
           annotations_index, a, m, missing_annotation_count, idx,
           total_num_annotations_skipped>>
vars == <<pvars, evars, rvars, include_masks>>

----------------------------------------------------------------------------
(* Helpers                                                                 *)

RemoveAt(s, n) == [q \in 1..(Len(s) - 1) |-> IF q < n THEN s[q] ELSE s[q + 1]]

Range(s) == {s[q] : q \in DOMAIN s}

\* all orderings of a finite set, as sequences without repetition
Orderings(S) ==
  {s \in [1..Cardinality(S) -> S] : \A p, q \in DOMAIN s : p # q => s[p] # s[q]}

\* all sequences over S of length at most n
RECURSIVE SeqsUpTo(_, _)
SeqsUpTo(S, n) ==
  IF n = 0 THEN {<<>>}
  ELSE LET shorter == SeqsUpTo(S, n - 1)
       IN  shorter \cup {Append(s, e) : s \in {t \in shorter : Len(t) = n - 1}, e \in S}

----------------------------------------------------------------------------
(* partition_dataset.py                                                    *)

MaxImages == 3

Stems == 1..MaxImages

\* a file name is its stem followed by its extension (dot included, if any)
FileName(stem, ext) == [stem |-> stem, ext |-> ext]

ImageExts == {".jpg", ".jpeg", ".png"}

\* re.search(r'([A-Za-z0-9\s_\\\.:]+)(.jpg|.jpeg|.png)$', f): the name ends
\* in one of the three lower-case extensions
IsImage(f) == f.ext \in ImageExts

\* os.path.splitext(filename)[0]
SplitextStem(f) == f.stem

\* files of the source directory that are never images
OtherFiles == {FileName(0, ".txt"), FileName(0, ".JPG")}

Ratios == {<<0, 1>>, <<1, 10>>, <<1, 2>>, <<1, 1>>}

\* math.ceil(ratio*num_images) for a ratio r = <<p, q>>, p >= 0, q > 0
CeilRatio(r, n) == (r[1] * n + r[2] - 1) \div r[2]

PIdle ==
  /\ p_pc = "idle" /\ source_files = {} /\ train_exists = FALSE /\ test_exists = FALSE
  /\ ratio = <<0, 1>> /\ cop_xml = FALSE /\ images = <<>> /\ num_test_images = 0
  /\ i = 0 /\ j = 0 /\ test_files = {} /\ train_files = {} /\ des_files = {}

PInit ==
  /\ p_pc = "mkdirs"
  /\ \E imgs \in SUBSET Stems : \E xmls \in SUBSET imgs : \E e \in {".jpg", ".png"} :
       source_files = {FileName(s, e) : s \in imgs}
                        \cup {FileName(s, ".xml") : s \in xmls} \cup OtherFiles
  /\ train_exists \in BOOLEAN
  /\ test_exists \in BOOLEAN
  /\ ratio \in Ratios
  /\ cop_xml \in BOOLEAN
  /\ images = <<>> /\ num_test_images = 0 /\ i = 0 /\ j = 0
  /\ test_files = {} /\ train_files = {} /\ des_files = {}

\* lines 16-22: os.makedirs runs only when the directory already exists, and
\* then raises FileExistsError; an absent directory is left absent
MakeDirs ==
  /\ p_pc = "mkdirs"
  /\ p_pc' = IF train_exists \/ test_exists THEN "failed" ELSE "list"
  /\ UNCHANGED <<source_files, train_exists, test_exists, ratio, cop_xml, images,
                 num_test_images, i, j, test_files, train_files, des_files>>

\* lines 24-26: os.listdir returns the names in arbitrary order
ListImages ==
  /\ p_pc = "list"
  /\ images' \in Orderings({f \in source_files : IsImage(f)})
  /\ num_test_images' = CeilRatio(ratio, Len(images'))
  /\ i' = 0
  /\ p_pc' = "test_loop"
  /\ UNCHANGED <<source_files, train_exists, test_exists, ratio, cop_xml, j,
                 test_files, train_files, des_files>>

\* lines 28-35: one iteration of the test loop
TestStep ==
  /\ p_pc = "test_loop"
  /\ i < num_test_images
  /\ IF Len(images) = 0
       THEN \* random.randint(0, -1) raises ValueError
            /\ p_pc' = "failed"
            /\ UNCHANGED <<images, i, test_files>>
       ELSE \E n \in 1..Len(images) :
              LET filename == images[n]
                  xml_filename == FileName(SplitextStem(filename), ".xml")
              IN  IF ~test_exists
                    THEN \* copyfile cannot open the destination
                         /\ p_pc' = "failed"
                         /\ UNCHANGED <<images, i, test_files>>
                    ELSE IF cop_xml /\ xml_filename \notin source_files
                      THEN /\ p_pc' = "failed"
                           /\ test_files' = test_files \cup {filename}
                           /\ UNCHANGED <<images, i>>
                      ELSE /\ test_files' = test_files \cup {filename}
                                  \cup (IF cop_xml THEN {xml_filename} ELSE {})
                           /\ images' = RemoveAt(images, n)
                           /\ i' = i + 1
                           /\ p_pc' = "test_loop"
  /\ UNCHANGED <<source_files, train_exists, test_exists, ratio, cop_xml,
                 num_test_images, j, train_files, des_files>>

\* line 28 -> line 37: range(num_test_images) is exhausted
TestDone ==
  /\ p_pc = "test_loop"
  /\ i >= num_test_images
  /\ p_pc' = "train_loop"
  /\ j' = 1
  /\ UNCHANGED <<source_files, train_exists, test_exists, ratio, cop_xml, images,
                 num_test_images, i, test_files, train_files, des_files>>

\* lines 37-42: one iteration of the train loop
TrainStep ==
  /\ p_pc = "train_loop"
  /\ j <= Len(images)
  /\ LET filename == images[j]
         xml_filename == FileName(SplitextStem(filename), "xml")
     IN  IF ~train_exists
           THEN /\ p_pc' = "failed"
                /\ UNCHANGED <<j, train_files, des_files>>
           ELSE IF cop_xml /\ xml_filename \notin source_files
             THEN /\ p_pc' = "failed"
                  /\ train_files' = train_files \cup {filename}
                  /\ UNCHANGED <<j, des_files>>
             ELSE /\ train_files' = train_files \cup {filename}
                  /\ des_files' = des_files \cup (IF cop_xml THEN {xml_filename} ELSE {})
                  /\ j' = j + 1
                  /\ p_pc' = "train_loop"
  /\ UNCHANGED <<source_files, train_exists, test_exists, ratio, cop_xml, images,
                 num_test_images, i, test_files>>

\* line 37: the list is exhausted, iterate_dir returns
TrainDone ==
  /\ p_pc = "train_loop"
  /\ j > Len(images)
  /\ p_pc' = "done"
  /\ UNCHANGED <<source_files, train_exists, test_exists, ratio, cop_xml, images,
                 num_test_images, i, j, test_files, train_files, des_files>>

----------------------------------------------------------------------------
(* coco_to_tfrecord_converter.py: create_tf_example                        *)

MaxAnnotations == 2
ImageWidth == 2
ImageHeight == 1
MaxNegXY == 1
MaxXY == 1
MaxWH == 2

\* float(n) / d, kept exact as the pair <<n, d>> with d > 0
Quotient(n, d) == <<n, d>>
QLess(p, q) == p[1] * q[2] < q[1] * p[2]
QNonNeg(p) == p[1] >= 0
QAtMostOne(p) == p[1] <= p[2]

\* the `categories` list of the document
Categories == <<[id |-> 1, name |-> "cat"], [id |-> 2, name |-> "dog"]>>

UnknownCategoryId == 9

\* label_map_util.create_category_index: the categories keyed by their id
CreateCategoryIndex(categories) ==
  [c \in {categories[q].id : q \in DOMAIN categories} |->
     CHOOSE cat \in Range(categories) : cat.id = c]

Annotation(img, bbox, cat, crowd, ar) ==
  [image_id |-> img, bbox |-> bbox, category_id |-> cat, iscrowd |-> crowd,
   area |-> ar, segmentation |-> IF crowd = 1 THEN "rle" ELSE "polygons"]

\* boxes that vary along one axis with the other axis inside the image, and
\* the boxes that leave the image at two opposite corners
Boxes ==
  {<<x, 0, w, 1>> : x \in (-MaxNegXY)..MaxXY, w \in 0..MaxWH}
    \cup {<<0, y, 1, h>> : y \in (-MaxNegXY)..0, h \in 0..MaxWH}
    \cup {<<-MaxNegXY, -MaxNegXY, 1, 1>>, <<MaxXY, 0, MaxWH, MaxWH>>}

\* every box with plain attributes, and every category and crowd flag on one
\* kept and one rejected box
AnnotationPool ==
  {Annotation(1, b, 1, 0, 5) : b \in Boxes}
    \cup {Annotation(1, b, c, cr, 7) :
            b \in {<<0, 0, 1, 1>>, <<0, 0, 0, 1>>},
            c \in {2, UnknownCategoryId}, cr \in {0, 1}}

ImageDescriptor(id, w, h, readable) ==
  [id |-> id, file_name |-> <<"img", id>>, width |-> w, height |-> h,
   readable |-> readable]

\* lines 100-109
EmptyAcc ==
  [xmin |-> <<>>, xmax |-> <<>>, ymin |-> <<>>, ymax |-> <<>>, is_crowd |-> <<>>,
   category_names |-> <<>>, category_ids |-> <<>>, area |-> <<>>,
   encoded_mask_png |-> <<>>, num_annotations_skipped |-> 0, error |-> "none"]

\* lines 130-138: the mask of one annotation, PNG encoded; the planes of a
\* non-crowd annotation are collapsed by np.amax
EncodedMask(ann, image_height, image_width) ==
  [segmentation |-> ann.segmentation, height |-> image_height, width |-> image_width,
   collapsed |-> (ann.iscrowd = 0)]

\* line 113
DegenerateBoxStrict(width, height) == width < 0 \/ height < 0

DegenerateBox(width, height) == width <= 0 \/ height <= 0

\* line 116
OutOfBounds(x, y, width, height, image_width, image_height) ==
  x + width > image_width \/ y + height > image_height

\* lines 114-115 and 117-118: count the annotation and `continue`
SkipAfterAppend(st, ann) ==
  [st EXCEPT !.num_annotations_skipped = @ + 1, !.is_crowd = Append(@, ann.iscrowd)]

SkipAnnotation(st, ann) == [st EXCEPT !.num_annotations_skipped = @ + 1]

\* lines 112-138: the body of the annotation loop
ProcessAnnotation(st, ann, image_width, image_height, cat_index, masks) ==
  LET x == ann.bbox[1]
      y == ann.bbox[2]
      width == ann.bbox[3]
      height == ann.bbox[4]
  IN  IF DegenerateBox(width, height)
        THEN SkipAnnotation(st, ann)
      ELSE IF OutOfBounds(x, y, width, height, image_width, image_height)
        THEN SkipAnnotation(st, ann)
      ELSE IF image_width = 0 \/ image_height = 0
        THEN [st EXCEPT !.error = "ZeroDivisionError"]
      ELSE IF ann.category_id \notin DOMAIN cat_index
        THEN [st EXCEPT !.error = "KeyError"]
      ELSE [st EXCEPT
              !.xmin = Append(@, Quotient(x, image_width)),
              !.xmax = Append(@, Quotient(x + width, image_width)),
              !.ymin = Append(@, Quotient(y, image_height)),
              !.ymax = Append(@, Quotient(y + height, image_height)),
              !.is_crowd = Append(@, ann.iscrowd),
              !.category_ids = Append(@, ann.category_id),
              !.category_names = Append(@, cat_index[ann.category_id].name),
              !.area = Append(@, ann.area),
              !.encoded_mask_png =
                 IF masks THEN Append(@, EncodedMask(ann, image_height, image_width))
                 ELSE @]

\* line 98: hashlib.sha256 of the encoded bytes of the file
Sha256(img) == <<"sha256", img.file_name>>

\* lines 139-172
FeatureDict(img, st, masks) ==
  LET base ==
        ("image/height" :> img.height) @@ ("image/width" :> img.width)
        @@ ("image/filename" :> img.file_name) @@ ("image/source_id" :> img.id)
        @@ ("image/key/sha256" :> Sha256(img)) @@ ("image/encoded" :> <<"bytes", img.file_name>>)
        @@ ("image/format" :> "jpeg")
        @@ ("image/object/bbox/xmin" :> st.xmin) @@ ("image/object/bbox/xmax" :> st.xmax)
        @@ ("image/object/bbox/ymin" :> st.ymin) @@ ("image/object/bbox/ymax" :> st.ymax)
        @@ ("image/object/class/text" :> st.category_names)
        @@ ("image/object/is_crowd" :> st.is_crowd)
        @@ ("image/object/area" :> st.area)
  IN  IF masks THEN base @@ ("image/object/mask" :> st.encoded_mask_png) ELSE base

\* line 174
Returned(img, st, masks) ==
  [key |-> Sha256(img), example |-> FeatureDict(img, st, masks),
   num_annotations_skipped |-> st.num_annotations_skipped]

NoExample == [key |-> "none"]

EIdle ==
  /\ e_pc = "idle" /\ image = ImageDescriptor(0, 0, 0, FALSE) /\ annotations_list = <<>>
  /\ k = 0 /\ acc = EmptyAcc /\ example = NoExample

EInit ==
  /\ e_pc = "read"
  /\ image \in {ImageDescriptor(1, ImageWidth, ImageHeight, r) : r \in BOOLEAN}
  /\ annotations_list \in SeqsUpTo(AnnotationPool, MaxAnnotations)
  /\ include_masks \in BOOLEAN
  /\ k = 0 /\ acc = EmptyAcc /\ example = NoExample

\* lines 88-109: read and decode the image file, start the loop
ReadImage ==
  /\ e_pc = "read"
  /\ IF image.readable
       THEN e_pc' = "loop" /\ k' = 1
       ELSE e_pc' = "failed" /\ k' = k
  /\ UNCHANGED <<image, annotations_list, include_masks, acc, example>>

\* lines 111-138: one iteration of the annotation loop
AnnotationStep ==
  /\ e_pc = "loop"
  /\ k <= Len(annotations_list)
  /\ LET st == ProcessAnnotation(acc, annotations_list[k], image.width, image.height,
                                 CreateCategoryIndex(Categories), include_masks)
     IN  IF st.error # "none"
           THEN e_pc' = "failed" /\ UNCHANGED <<acc, k>>
           ELSE e_pc' = "loop" /\ acc' = st /\ k' = k + 1
  /\ UNCHANGED <<image, annotations_list, include_masks, example>>

\* lines 139-174: build the feature dictionary and return
BuildExample ==
  /\ e_pc = "loop"
  /\ k > Len(annotations_list)
  /\ example' = Returned(image, acc, include_masks)
  /\ e_pc' = "returned"
  /\ UNCHANGED <<image, annotations_list, include_masks, k, acc>>

\* create_tf_example as one call: the returned triple, or NoExample when it raises
RECURSIVE AnnotationLoop(_, _, _, _, _)
AnnotationLoop(st, anns, img, cat_index, masks) ==
  IF anns = <<>> \/ st.error # "none" THEN st
  ELSE AnnotationLoop(ProcessAnnotation(st, Head(anns), img.width, img.height,
                                        cat_index, masks),
                      Tail(anns), img, cat_index, masks)

create_tf_example(img, anns, cat_index, masks) ==
  IF ~img.readable THEN NoExample
  ELSE LET st == AnnotationLoop(EmptyAcc, anns, img, cat_index, masks)
       IN  IF st.error # "none" THEN NoExample ELSE Returned(img, st, masks)

----------------------------------------------------------------------------
(* coco_to_tfrecord_converter.py: _create_tf_record_from_coco_annotations  *)

MaxDocImages == 3
MaxDocAnnotations == 2
MaxShards == 3

\* a document that is no JSON or lacks a top-level key has no content that
\* the run ever reads
BadFormats == {"not_json", "no_images", "no_categories", "no_annotations"}

ImageIds == {1, 2}

\* the `images` list of a document: the images with the given ids, those of
\* the ids in `unreadable` having no readable file in image_dir
DocImageList(ids, unreadable) ==
  [q \in DOMAIN ids |->
     ImageDescriptor(ids[q], ImageWidth, ImageHeight, ids[q] \notin unreadable)]

\* a kept box with a known and an unknown category, and a rejected box with
\* an unknown category
DocAnnotationPool ==
  {Annotation(id, <<0, 0, 1, 1>>, c, 0, 5) : id \in ImageIds, c \in {1, UnknownCategoryId}}
    \cup {Annotation(1, <<0, 0, 0, 1>>, UnknownCategoryId, 0, 5)}

\* tf_record_creation_util.open_sharded_output_tfrecords: one open writer
\* per shard, each entered into the exit stack
OpenShardedOutputTfrecords(n) == [s \in 1..n |-> [open |-> TRUE, records |-> <<>>]]

\* line 190: leaving the `with` block, normally or by an exception, closes
\* every writer that was entered into the exit stack
ExitStackLeak(writers) == writers

ExitStackClose(writers) == [s \in DOMAIN writers |-> [writers[s] EXCEPT !.open = FALSE]]

\* lines 204-207
IndexOverwrite(index, annotation) ==
  [id \in DOMAIN index \cup {annotation.image_id} |->
     IF id = annotation.image_id THEN <<annotation>> ELSE index[id]]

IndexAppend(index, annotation) ==
  LET image_id == annotation.image_id
  IN  [id \in DOMAIN index \cup {image_id} |->
         IF id = image_id
           THEN Append(IF id \in DOMAIN index THEN index[id] ELSE <<>>, annotation)
           ELSE index[id]]

\* lines 212-214
IndexDefault(index, image_id) ==
  [id \in DOMAIN index \cup {image_id} |-> IF id \in DOMAIN index THEN index[id] ELSE <<>>]

\* line 227
ShardIdxByBlock(n, shards) == (n \div shards) % shards

ShardIdx(n, shards) == n % shards

\* tf_example.SerializeToString()
SerializeToString(ex) == <<"proto", ex>>

\* line 228: TFRecordWriter.write appends to the shard file
WriteRecord(writers, shard_idx, bytes) ==
  [writers EXCEPT ![shard_idx + 1].records = Append(@, bytes)]

RIdle ==
  /\ r_pc = "idle"
  /\ groundtruth_data = [format |-> "ok", images |-> <<>>, annotations |-> <<>>,
                         categories |-> <<>>]
  /\ num_shards = 1 /\ output_tfrecords = <<>> /\ category_index = <<>>
  /\ annotations_index = <<>> /\ a = 0 /\ m = 0 /\ missing_annotation_count = 0
  /\ idx = 0 /\ total_num_annotations_skipped = 0

RInit ==
  /\ r_pc = "open"
  /\ \/ \E ids \in SeqsUpTo(ImageIds, MaxDocImages) :
        \E unreadable \in SUBSET ImageIds :
        \E anns \in SeqsUpTo(DocAnnotationPool, MaxDocAnnotations) :
          groundtruth_data = [format |-> "ok", images |-> DocImageList(ids, unreadable),
                              annotations |-> anns, categories |-> Categories]
     \/ \E f \in BadFormats :
          groundtruth_data = [format |-> f, images |-> <<>>, annotations |-> <<>>,
                              categories |-> <<>>]
  /\ num_shards \in 1..MaxShards
  /\ include_masks \in BOOLEAN
  /\ output_tfrecords = <<>> /\ category_index = <<>> /\ annotations_index = <<>>
  /\ a = 0 /\ m = 0 /\ missing_annotation_count = 0 /\ idx = 0
  /\ total_num_annotations_skipped = 0

\* lines 190-192
OpenShards ==
  /\ r_pc = "open"
  /\ output_tfrecords' = OpenShardedOutputTfrecords(num_shards)
  /\ r_pc' = "load"
  /\ UNCHANGED <<groundtruth_data, num_shards, include_masks, category_index,
                 annotations_index, a, m, missing_annotation_count, idx,
                 total_num_annotations_skipped>>

\* lines 193-203: json.load and the look-ups of the three top-level keys
LoadDocument ==
  /\ r_pc = "load"
  /\ IF groundtruth_data.format # "ok"
       THEN /\ r_pc' = "failed"
            /\ output_tfrecords' = ExitStackClose(output_tfrecords)
            /\ UNCHANGED <<category_index, annotations_index, a>>
       ELSE /\ category_index' = CreateCategoryIndex(groundtruth_data.categories)
            /\ annotations_index' = <<>>
            /\ a' = 1
            /\ r_pc' = "index"
            /\ UNCHANGED output_tfrecords
  /\ UNCHANGED <<groundtruth_data, num_shards, include_masks, m,
                 missing_annotation_count, idx, total_num_annotations_skipped>>

\* lines 203-207: one iteration of the annotation-index loop
IndexStep ==
  /\ r_pc = "index"
  /\ a <= Len(groundtruth_data.annotations)
  /\ annotations_index' = IndexAppend(annotations_index, groundtruth_data.annotations[a])
  /\ a' = a + 1
  /\ UNCHANGED <<r_pc, groundtruth_data, num_shards, include_masks, output_tfrecords,
                 category_index, m, missing_annotation_count, idx,
                 total_num_annotations_skipped>>

\* line 208
IndexDone ==
  /\ r_pc = "index"
  /\ a > Len(groundtruth_data.annotations)
  /\ missing_annotation_count' = 0
  /\ m' = 1
  /\ r_pc' = "missing"
  /\ UNCHANGED <<groundtruth_data, num_shards, include_masks, output_tfrecords,
                 category_index, annotations_index, a, idx,
                 total_num_annotations_skipped>>

\* lines 210-214: one iteration of the missing-annotation loop
MissingStep ==
  /\ r_pc = "missing"
  /\ m <= Len(groundtruth_data.images)
  /\ LET image_id == groundtruth_data.images[m].id
     IN  IF image_id \notin DOMAIN annotations_index
           THEN /\ missing_annotation_count' = missing_annotation_count + 1
                /\ annotations_index' = IndexDefault(annotations_index, image_id)
           ELSE UNCHANGED <<missing_annotation_count, annotations_index>>
  /\ m' = m + 1
  /\ UNCHANGED <<r_pc, groundtruth_data, num_shards, include_masks, output_tfrecords,
                 category_index, a, idx, total_num_annotations_skipped>>

\* lines 216-219
MissingDone ==
  /\ r_pc = "missing"
  /\ m > Len(groundtruth_data.images)
  /\ total_num_annotations_skipped' = 0
  /\ idx' = 0
  /\ r_pc' = "images"
  /\ UNCHANGED <<groundtruth_data, num_shards, include_masks, output_tfrecords,
                 category_index, annotations_index, a, m, missing_annotation_count>>

\* lines 220-228 with the failure of one image swallowed: the loop goes on
\* to the next image
ImageStepContinue ==
  /\ r_pc = "images"
  /\ idx < Len(groundtruth_data.images)
  /\ LET img == groundtruth_data.images[idx + 1]
         result == create_tf_example(img, annotations_index[img.id], category_index,
                                     include_masks)
     IN  IF result = NoExample
           THEN UNCHANGED <<output_tfrecords, total_num_annotations_skipped>>
           ELSE /\ total_num_annotations_skipped' =
                     total_num_annotations_skipped + result.num_annotations_skipped
                /\ output_tfrecords' =
                     WriteRecord(output_tfrecords, ShardIdx(idx, num_shards),
                                 SerializeToString(result.example))
  /\ idx' = idx + 1
  /\ r_pc' = "images"
  /\ UNCHANGED <<groundtruth_data, num_shards, include_masks, category_index,
                 annotations_index, a, m, missing_annotation_count>>

\* lines 220-228: one iteration of the image loop; an exception raised by
\* create_tf_example leaves the `with` block
ImageStep ==
  /\ r_pc = "images"
  /\ idx < Len(groundtruth_data.images)
  /\ LET img == groundtruth_data.images[idx + 1]
         result == create_tf_example(img, annotations_index[img.id], category_index,
                                     include_masks)
     IN  IF result = NoExample
           THEN /\ r_pc' = "failed"
                /\ output_tfrecords' = ExitStackClose(output_tfrecords)
                /\ UNCHANGED <<idx, total_num_annotations_skipped>>
           ELSE /\ total_num_annotations_skipped' =
                     total_num_annotations_skipped + result.num_annotations_skipped
                /\ output_tfrecords' =
                     WriteRecord(output_tfrecords, ShardIdx(idx, num_shards),
                                 SerializeToString(result.example))
                /\ idx' = idx + 1
                /\ r_pc' = "images"
  /\ UNCHANGED <<groundtruth_data, num_shards, include_masks, category_index,
                 annotations_index, a, m, missing_annotation_count>>

\* line 229 and the end of the `with` block
ImagesDone ==
  /\ r_pc = "images"
  /\ idx >= Len(groundtruth_data.images)
  /\ output_tfrecords' = ExitStackClose(output_tfrecords)
  /\ r_pc' = "done"
  /\ UNCHANGED <<groundtruth_data, num_shards, include_masks, category_index,
                 annotations_index, a, m, missing_annotation_count, idx,
                 total_num_annotations_skipped>>

----------------------------------------------------------------------------
(* Specifications                                                          *)

InitPartition == PInit /\ EIdle /\ RIdle /\ include_masks = FALSE

NextPartition ==
  \/ (MakeDirs /\ UNCHANGED <<evars, rvars, include_masks>>)
  \/ (ListImages /\ UNCHANGED <<evars, rvars, include_masks>>)
  \/ (TestStep /\ UNCHANGED <<evars, rvars, include_masks>>)
  \/ (TestDone /\ UNCHANGED <<evars, rvars, include_masks>>)
  \/ (TrainStep /\ UNCHANGED <<evars, rvars, include_masks>>)
  \/ (TrainDone /\ UNCHANGED <<evars, rvars, include_masks>>)

SpecPartition == InitPartition /\ [][NextPartition]_vars

InitExample == EInit /\ PIdle /\ RIdle

NextExample ==
  \/ (ReadImage /\ UNCHANGED <<pvars, rvars>>)
  \/ (AnnotationStep /\ UNCHANGED <<pvars, rvars>>)
  \/ (BuildExample /\ UNCHANGED <<pvars, rvars>>)

SpecExample == InitExample /\ [][NextExample]_vars

InitRecord == RInit /\ PIdle /\ EIdle

NextRecord ==
  \/ (OpenShards /\ UNCHANGED <<pvars, evars>>)
  \/ (LoadDocument /\ UNCHANGED <<pvars, evars>>)
  \/ (IndexStep /\ UNCHANGED <<pvars, evars>>)
  \/ (IndexDone /\ UNCHANGED <<pvars, evars>>)
  \/ (MissingStep /\ UNCHANGED <<pvars, evars>>)
  \/ (MissingDone /\ UNCHANGED <<pvars, evars>>)
  \/ (ImageStep /\ UNCHANGED <<pvars, evars>>)
  \/ (ImagesDone /\ UNCHANGED <<pvars, evars>>)

SpecRecord == InitRecord /\ [][NextRecord]_vars

----------------------------------------------------------------------------
(* Properties of iterate_dir, checked under SpecPartition                  *)

EnumeratedImages == {f \in source_files : IsImage(f)}

\* C1: once the directory set-up of iterate_dir is over and the copy loops
\* run, both des_dir/train and des_dir/test exist.
DirectoriesExistBeforeCopy ==
  p_pc \in {"test_loop", "train_loop", "done"} => (train_exists /\ test_exists)

\* C2: with cop_xml set, when iterate_dir has ended, every image left for the
\* train set has its sidecar <stem>.xml in des_dir/train, and no sidecar was
\* written anywhere else.
TrainSidecarInTrainDir ==
  (p_pc \in {"done", "failed"} /\ cop_xml /\ i = num_test_images) =>
     /\ \A n \in DOMAIN images :
          FileName(SplitextStem(images[n]), ".xml") \in train_files
     /\ des_files = {}

\* C6: when iterate_dir has ended, the images in des_dir/test number
\* ceil(ratio * total), the images in des_dir/train are disjoint from them,
\* and together they are all the enumerated images.
PartitionIsExact ==
  p_pc \in {"done", "failed"} =>
     LET test_set == {f \in test_files : IsImage(f)}
         train_set == {f \in train_files : IsImage(f)}
     IN  /\ Cardinality(test_set) = CeilRatio(ratio, Cardinality(EnumeratedImages))
         /\ test_set \cap train_set = {}
         /\ test_set \cup train_set = EnumeratedImages

----------------------------------------------------------------------------
(* Properties of create_tf_example, checked under SpecExample              *)

\* the rejection rule as the specification words it
Rejected(ann) ==
  \/ ann.bbox[3] <= 0
  \/ ann.bbox[4] <= 0
  \/ ann.bbox[1] + ann.bbox[3] > image.width
  \/ ann.bbox[2] + ann.bbox[4] > image.height

NotRejected(ann) == ~Rejected(ann)

\* the annotations processed so far, and those of them that are kept
Processed == SubSeq(annotations_list, 1, k - 1)
Kept == SelectSeq(Processed, NotRejected)

\* C3: every normalized box appended by create_tf_example lies in the unit
\* square: 0 <= xmin < xmax <= 1 and 0 <= ymin < ymax <= 1.
NormalizedInUnitSquare ==
  \A n \in DOMAIN acc.xmin :
     /\ QNonNeg(acc.xmin[n]) /\ QLess(acc.xmin[n], acc.xmax[n]) /\ QAtMostOne(acc.xmax[n])
     /\ QNonNeg(acc.ymin[n]) /\ QLess(acc.ymin[n], acc.ymax[n]) /\ QAtMostOne(acc.ymax[n])

\* C4: an annotation is excluded exactly when width <= 0, height <= 0,
\* x + width > image width or y + height > image height; the skip counter is
\* the number of such annotations, and kept + skipped is the number of
\* annotations processed, during the loop and in the returned triple.
SkipCountExact ==
  /\ e_pc \in {"loop", "returned"} =>
       /\ acc.num_annotations_skipped = Len(Processed) - Len(Kept)
       /\ acc.category_ids = [n \in DOMAIN Kept |-> Kept[n].category_id]
  /\ e_pc = "returned" =>
       /\ example.num_annotations_skipped =
            Cardinality({n \in DOMAIN annotations_list : Rejected(annotations_list[n])})
       /\ Len(example.example["image/object/bbox/xmin"])
            + example.num_annotations_skipped = Len(annotations_list)

SkipCountExactWitness ==
  /\ e_pc = "returned"
  /\ Len(annotations_list) = 2
  /\ Rejected(annotations_list[1])
  /\ NotRejected(annotations_list[2])
  /\ example.num_annotations_skipped = 1

\* C5: in the returned record the sequences xmin, xmax, ymin, ymax, category
\* names, crowd flags and areas have one entry per kept annotation, entry n
\* of each taken from the n-th kept annotation in input order; the mask
\* sequence is present exactly when include_masks is set and is aligned too.
ParallelSequencesAligned ==
  e_pc = "returned" =>
     LET f == example.example
         names == CreateCategoryIndex(Categories)
     IN  /\ f["image/object/bbox/xmin"] =
              [n \in DOMAIN Kept |-> Quotient(Kept[n].bbox[1], image.width)]
         /\ f["image/object/bbox/xmax"] =
              [n \in DOMAIN Kept |-> Quotient(Kept[n].bbox[1] + Kept[n].bbox[3], image.width)]
         /\ f["image/object/bbox/ymin"] =
              [n \in DOMAIN Kept |-> Quotient(Kept[n].bbox[2], image.height)]
         /\ f["image/object/bbox/ymax"] =
              [n \in DOMAIN Kept |-> Quotient(Kept[n].bbox[2] + Kept[n].bbox[4], image.height)]
         /\ f["image/object/class/text"] =
              [n \in DOMAIN Kept |-> names[Kept[n].category_id].name]
         /\ f["image/object/is_crowd"] = [n \in DOMAIN Kept |-> Kept[n].iscrowd]
         /\ f["image/object/area"] = [n \in DOMAIN Kept |-> Kept[n].area]
         /\ ("image/object/mask" \in DOMAIN f) = include_masks
         /\ include_masks =>
              /\ Len(f["image/object/mask"]) = Len(Kept)
              /\ \A n \in DOMAIN Kept :
                   f["image/object/mask"][n].segmentation = Kept[n].segmentation

ParallelSequencesAlignedWitness ==
  /\ e_pc = "returned"
  /\ include_masks
  /\ Len(annotations_list) = 2
  /\ Rejected(annotations_list[1])
  /\ annotations_list[1].iscrowd = 1
  /\ Len(example.example["image/object/mask"]) = 1
  /\ example.example["image/object/is_crowd"] = <<0>>

----------------------------------------------------------------------------
(* Properties of _create_tf_record_from_coco_annotations, checked under    *)
(* SpecRecord                                                              *)

DocImages == groundtruth_data.images
DocAnnotations == groundtruth_data.annotations

\* the annotations of the document that reference image_id, in document order
AnnotationsOf(image_id) ==
  LET References(ann) == ann.image_id = image_id
  IN  SelectSeq(DocAnnotations, References)

\* what create_tf_example yields for the image at 0-based position p
ResultAt(p) ==
  create_tf_example(DocImages[p + 1], AnnotationsOf(DocImages[p + 1].id),
                    CreateCategoryIndex(groundtruth_data.categories), include_masks)

\* the 0-based positions below n that shard s (1-based) receives, ascending
PositionsOf(s, n) ==
  LET InShard(p) == p % num_shards = s - 1
  IN  SelectSeq([q \in 1..n |-> q - 1], InShard)

\* the content of shard s once the first n images are written
ShardContent(s, n) ==
  [q \in DOMAIN PositionsOf(s, n) |-> SerializeToString(ResultAt(PositionsOf(s, n)[q]).example)]

AllClosed ==
  /\ Len(output_tfrecords) = num_shards
  /\ \A s \in DOMAIN output_tfrecords : ~output_tfrecords[s].open

\* C7: in a successful run over N images and S shards, shard i mod S holds
\* the record of the image at position i, in document order, one record per
\* image, and each shard ends with floor(N/S) or ceil(N/S) records.
ShardRoundRobin ==
  r_pc = "done" =>
     LET N == Len(DocImages)
         S == num_shards
     IN  /\ \A s \in 1..S : output_tfrecords[s].records = ShardContent(s, N)
         /\ \A s \in 1..S :
              Len(output_tfrecords[s].records) \in {N \div S, (N + S - 1) \div S}
         /\ \A p \in 0..(N - 1) :
              \E q \in DOMAIN output_tfrecords[(p % S) + 1].records :
                 output_tfrecords[(p % S) + 1].records[q] = SerializeToString(ResultAt(p).example)

ShardRoundRobinWitness ==
  /\ r_pc = "done"
  /\ Len(DocImages) = 3
  /\ num_shards = 2
  /\ DocImages[1].id # DocImages[2].id
  /\ Len(output_tfrecords[1].records) = 2
  /\ Len(output_tfrecords[2].records) = 1

\* C8: once the annotation index is built, every image id of `images` is a
\* key of it, mapped to the annotations that reference it in document order
\* (none: the empty list), and the missing-annotation count is the number of
\* distinct image ids of `images` that no annotation references.
AnnotationIndexComplete ==
  r_pc \in {"images", "done"} =>
     LET ids == {DocImages[q].id : q \in DOMAIN DocImages}
     IN  /\ ids \subseteq DOMAIN annotations_index
         /\ \A id \in ids : annotations_index[id] = AnnotationsOf(id)
         /\ missing_annotation_count =
              Cardinality({id \in ids : AnnotationsOf(id) = <<>>})

AnnotationIndexCompleteWitness ==
  /\ r_pc = "done"
  /\ Len(DocImages) = 3
  /\ DocImages[1].id = DocImages[2].id
  /\ DocImages[3].id # DocImages[1].id
  /\ annotations_index[DocImages[1].id] = <<>>
  /\ Len(annotations_index[DocImages[3].id]) = 2
  /\ missing_annotation_count = 1

\* C9: after the run has returned or raised, every shard writer that was
\* opened is closed.
ShardsClosedAtExit == r_pc \in {"done", "failed"} => AllClosed

ShardsClosedAtExitWitness ==
  /\ r_pc = "failed"
  /\ num_shards >= 2
  /\ idx >= 2
  /\ \A s \in 1..2 : Len(output_tfrecords[s].records) >= 1
  /\ AllClosed

\* C10: when building the record of the image at position k fails, the run
\* ends in failure with the shards holding exactly the records of the images
\* 0..k-1, and nothing is written afterwards.
ImageFailureAborts ==
  /\ [](r_pc = "failed" /\ groundtruth_data.format = "ok" =>
          /\ idx < Len(DocImages)
          /\ ResultAt(idx) = NoExample
          /\ \A s \in 1..num_shards : output_tfrecords[s].records = ShardContent(s, idx))
  /\ [][/\ (r_pc = "images" /\ idx < Len(DocImages) /\ ResultAt(idx) = NoExample) =>
             (r_pc' = "failed" /\ idx' = idx
              /\ \A s \in 1..num_shards :
                   output_tfrecords'[s].records = output_tfrecords[s].records)
        /\ r_pc = "failed" => (r_pc' = "failed" /\ output_tfrecords' = output_tfrecords)
       ]_vars

ImageFailureAbortsWitness ==
  /\ r_pc = "failed"
  /\ groundtruth_data.format = "ok"
  /\ idx = 1
  /\ Len(DocImages) = 3
  /\ DocImages[2].readable
  /\ DocImages[3].readable
  /\ ResultAt(2) # NoExample
  /\ Len(output_tfrecords[1].records) = 1

====
